---------------------------- MODULE Spec2Model ----------------------------
(***************************************************************************)
(* QBdtNodeInterface (include/qbdt_node_interface.hpp): the base node of   *)
(* Qrack's quantum binary decision tree.  A node is a complex scale and    *)
(* two shared references to child nodes; with ENABLE_QBDT_CPU_PARALLEL &&  *)
(* ENABLE_PTHREAD it also carries a std::mutex.  The model keeps the nodes *)
(* in a heap, runs SetZero() statement by statement for every calling      *)
(* thread, and runs the default (throwing) virtual operations atomically.  *)
(***************************************************************************)
EXTENDS Integers, Sequences, FiniteSets, TLC

\* ------------------------------------------------------------------ bounds
MaxNodes == 3      \* nodes ever constructed (SetZero, equality)
MaxOpNodes == 2    \* nodes ever constructed (default operations)
MaxDepth == 2      \* largest depth argument / longest amplitude path
NumThreads == 2    \* concurrent callers in the parallel build

\* --------------------------------------------------------------- constants
ZERO_CMPLX == 0
ONE_CMPLX == 1
Null == 0
NoThread == 0

\* complex values are abstracted to two: zero and a non-zero value
Scales == {ZERO_CMPLX, ONE_CMPLX}
Depths == 0..MaxDepth
Threads == 1..NumThreads
Matrices == {"I", "H"}
Bits == {0, 1}

VARIABLES
    parallel,   \* build mode: ENABLE_QBDT_CPU_PARALLEL && ENABLE_PTHREAD
    heap,       \* heap[n] = [scale, branches] of node n; n in 1..Len(heap)
    mtx,        \* mtx[n]: the thread holding node n's mutex, or NoThread
    pc,         \* pc[t]: where thread t is in SetZero(), "idle" outside it
    this,       \* this[t]: the node thread t's SetZero() runs on
    b,          \* b[t]: the local copy b0 / b1 of the slot's reference
    pre,        \* pre[t]: the node's fields when thread t called SetZero()
    last,       \* the last completed call: operation, arguments, outcome
    crashed     \* the process faulted (lock through an empty reference)

vars == <<parallel, heap, mtx, pc, this, b, pre, last, crashed>>

Refs == 0..Len(heap)
Ids == 1..Len(heap)

\* the three constructors
CtorDefault == [scale |-> ONE_CMPLX, branches |-> <<Null, Null>>]

CtorScale(scl) == [scale |-> scl, branches |-> <<Null, Null>>]

CtorScaleBranches(scl, br) == [scale |-> scl, branches |-> <<br[1], br[2]>>]

NoNode == [scale |-> ZERO_CMPLX, branches |-> <<Null, Null>>]

NoCall == [op |-> "none", self |-> Null, arg |-> 0, outcome |-> "none"]

Call(op, n, arg, outcome) ==
    [op |-> op, self |-> n, arg |-> arg, outcome |-> outcome]

\* --------------------------------------------- default virtual operations
\* Each gives the outcome of the call: "returned" or the std::out_of_range
\* it throws.  None of them touches the node.
\* a slip: the depth-0 early return of the other operations, copied here
PushStateVectorDepth0(mtrx, b0, b1, depth) ==
    IF depth = 0 THEN "returned" ELSE "out_of_range"

PushStateVector(mtrx, b0, b1, depth) == "out_of_range"

InsertAtDepth(br, depth, size) == "out_of_range"

ShallowClone == "out_of_range"

PushSpecial(mtrx, b1) == "out_of_range"

PopStateVector(depth) == IF depth = 0 THEN "returned" ELSE "out_of_range"

\* a slip: the depth test left out
BranchAlwaysThrows(depth) == "out_of_range"

Branch(depth) == IF depth = 0 THEN "returned" ELSE "out_of_range"

Prune(depth) == IF depth = 0 THEN "returned" ELSE "out_of_range"

\* a slip: the throw left out
NormalizeNoThrow(depth) == "returned"

Normalize(depth) == IF depth = 0 THEN "returned" ELSE "out_of_range"

Apply2x2(mtrx, depth) == IF depth = 0 THEN "returned" ELSE "out_of_range"

\* ------------------------------------------------------------------- state
Idle == <<"idle", 0>>

AllIdle == \A t \in Threads : pc[t] = Idle

Init ==
    /\ parallel \in BOOLEAN
    /\ heap = <<>>
    /\ mtx = <<>>
    /\ pc = [t \in Threads |-> Idle]
    /\ this = [t \in Threads |-> Null]
    /\ b = [t \in Threads |-> Null]
    /\ pre = [t \in Threads |-> NoNode]
    /\ last = NoCall
    /\ crashed = FALSE

\* ------------------------------------------------------------ constructors
New(node, max) ==
    /\ ~crashed
    /\ Len(heap) < max
    /\ heap' = Append(heap, node)
    /\ mtx' = Append(mtx, NoThread)
    /\ UNCHANGED <<parallel, pc, this, b, pre, last, crashed>>

NewDefault(max) == New(CtorDefault, max)

NewScale(max) == \E scl \in Scales : New(CtorScale(scl), max)

NewScaleBranches(max) ==
    \E scl \in Scales, br \in Refs \X Refs :
        New(CtorScaleBranches(scl, br), max)

\* ------------------------------------------- calls of the default operations
Default(t, op, n, arg, outcome) ==
    /\ ~crashed
    /\ pc[t] = Idle
    /\ last' = Call(op, n, arg, outcome)
    /\ UNCHANGED <<parallel, heap, mtx, pc, this, b, pre, crashed>>

CallPushStateVector(t) ==
    \E n \in Ids, m \in Matrices, b0 \in Refs, b1 \in Refs, d \in Depths :
        Default(t, "PushStateVector", n, d, PushStateVector(m, b0, b1, d))

CallInsertAtDepth(t) ==
    \E n \in Ids, br \in Refs, d \in Depths, size \in Depths :
        Default(t, "InsertAtDepth", n, d, InsertAtDepth(br, d, size))

CallShallowClone(t) ==
    \E n \in Ids : Default(t, "ShallowClone", n, 0, ShallowClone)

CallPushSpecial(t) ==
    \E n \in Ids, m \in Matrices, b1 \in Refs :
        Default(t, "PushSpecial", n, b1, PushSpecial(m, b1))

CallPopStateVector(t) ==
    \E n \in Ids, d \in Depths :
        Default(t, "PopStateVector", n, d, PopStateVector(d))

CallBranch(t) ==
    \E n \in Ids, d \in Depths : Default(t, "Branch", n, d, Branch(d))

CallPrune(t) ==
    \E n \in Ids, d \in Depths : Default(t, "Prune", n, d, Prune(d))

CallNormalize(t) ==
    \E n \in Ids, d \in Depths : Default(t, "Normalize", n, d, Normalize(d))

CallApply2x2(t) ==
    \E n \in Ids, m \in Matrices, d \in Depths :
        Default(t, "Apply2x2", n, d, Apply2x2(m, d))

\* ------------------------------------------------------------------ SetZero
\* line 116: scale = ZERO_CMPLX
ZeroScale(node) == [node EXCEPT !.scale = ZERO_CMPLX]

\* a slip: branches[0U] written twice
DetachFirstOnly(node, i) == [node EXCEPT !.branches[1] = Null]

\* lines 122, 128, 131, 132: branches[i] = nullptr
Detach(node, i) == [node EXCEPT !.branches[i + 1] = Null]

\* where SetZero() goes after line 116, by build
AfterScale == IF parallel THEN <<"test", 0>> ELSE <<"seq", 0>>

\* where SetZero() goes once slot i is done
AfterSlot(i) == IF i = 0 THEN <<"test", 1>> ELSE <<"ret", 0>>

\* thread t calls n->SetZero(); line 116
SetZeroOn(t, n) ==
    /\ ~crashed
    /\ pc[t] = Idle
    /\ this' = [this EXCEPT ![t] = n]
    /\ pre' = [pre EXCEPT ![t] = heap[n]]
    /\ heap' = [heap EXCEPT ![n] = ZeroScale(heap[n])]
    /\ pc' = [pc EXCEPT ![t] = AfterScale]
    /\ UNCHANGED <<parallel, mtx, b, last, crashed>>

SetZeroCall(t) == \E n \in Ids : SetZeroOn(t, n)

\* lines 131-132 (the build without locks)
SeqDetach(t, i) ==
    /\ ~crashed
    /\ pc[t] = <<"seq", i>>
    /\ heap' = [heap EXCEPT ![this[t]] = Detach(heap[this[t]], i)]
    /\ pc' = [pc EXCEPT ![t] = IF i = 0 THEN <<"seq", 1>> ELSE <<"ret", 0>>]
    /\ UNCHANGED <<parallel, mtx, this, b, pre, last, crashed>>

\* lines 119, 125: if (branches[i])
Test(t, i) ==
    /\ ~crashed
    /\ pc[t] = <<"test", i>>
    /\ pc' = [pc EXCEPT ![t] = IF heap[this[t]].branches[i + 1] # Null
                                 THEN <<"copy", i>> ELSE AfterSlot(i)]
    /\ UNCHANGED <<parallel, heap, mtx, this, b, pre, last, crashed>>

\* lines 120, 126: QBdtNodeInterfacePtr bi = branches[i]
Copy(t, i) ==
    /\ ~crashed
    /\ pc[t] = <<"copy", i>>
    /\ b' = [b EXCEPT ![t] = heap[this[t]].branches[i + 1]]
    /\ pc' = [pc EXCEPT ![t] = <<"lock", i>>]
    /\ UNCHANGED <<parallel, heap, mtx, this, pre, last, crashed>>

\* lines 121, 127: std::lock_guard<std::mutex> lock(bi->mtx), bi non-empty
Lock(t, i) ==
    /\ ~crashed
    /\ pc[t] = <<"lock", i>>
    /\ b[t] # Null
    /\ mtx[b[t]] = NoThread
    /\ mtx' = [mtx EXCEPT ![b[t]] = t]
    /\ pc' = [pc EXCEPT ![t] = <<"clear", i>>]
    /\ UNCHANGED <<parallel, heap, this, b, pre, last, crashed>>

\* lines 121, 127 with bi empty: bi->mtx dereferences a null pointer, which
\* is undefined.  The build either faults (the process dies) or the lock call
\* comes back having locked no node's mutex.
LockNull(t, i) ==
    /\ ~crashed
    /\ pc[t] = <<"lock", i>>
    /\ b[t] = Null
    /\ \/ /\ crashed' = TRUE
          /\ pc' = pc
       \/ /\ crashed' = crashed
          /\ pc' = [pc EXCEPT ![t] = <<"clear", i>>]
    /\ UNCHANGED <<parallel, heap, mtx, this, b, pre, last>>

\* a slip: the detach also zeroes the child through the local copy
ClearThroughChild(t, i) ==
    /\ ~crashed
    /\ pc[t] = <<"clear", i>>
    /\ heap' = [heap EXCEPT ![this[t]] = Detach(heap[this[t]], i),
                            ![b[t]] = ZeroScale(heap[b[t]])]
    /\ pc' = [pc EXCEPT ![t] = <<"unlock", i>>]
    /\ UNCHANGED <<parallel, mtx, this, b, pre, last, crashed>>

\* lines 122, 128: branches[i] = nullptr
Clear(t, i) ==
    /\ ~crashed
    /\ pc[t] = <<"clear", i>>
    /\ heap' = [heap EXCEPT ![this[t]] = Detach(heap[this[t]], i)]
    /\ pc' = [pc EXCEPT ![t] = <<"unlock", i>>]
    /\ UNCHANGED <<parallel, mtx, this, b, pre, last, crashed>>

\* a slip: the bit-0 lock outlives its block and is released at the end
UnlockAtEnd(t, i) ==
    /\ ~crashed
    /\ pc[t] = <<"unlock", i>>
    /\ mtx' = IF i = 0 THEN mtx
              ELSE [n \in DOMAIN mtx |-> IF mtx[n] = t THEN NoThread ELSE mtx[n]]
    /\ b' = [b EXCEPT ![t] = Null]
    /\ pc' = [pc EXCEPT ![t] = AfterSlot(i)]
    /\ UNCHANGED <<parallel, heap, this, pre, last, crashed>>

\* lines 123, 129: the block ends; lock releases the mutex, then bi goes
Unlock(t, i) ==
    /\ ~crashed
    /\ pc[t] = <<"unlock", i>>
    /\ mtx' = IF b[t] = Null THEN mtx ELSE [mtx EXCEPT ![b[t]] = NoThread]
    /\ b' = [b EXCEPT ![t] = Null]
    /\ pc' = [pc EXCEPT ![t] = AfterSlot(i)]
    /\ UNCHANGED <<parallel, heap, this, pre, last, crashed>>

\* line 134: SetZero() returns
Return(t) ==
    /\ ~crashed
    /\ pc[t] = <<"ret", 0>>
    /\ last' = Call("SetZero", this[t], 0, "returned")
    /\ pc' = [pc EXCEPT ![t] = Idle]
    /\ this' = [this EXCEPT ![t] = Null]
    /\ pre' = [pre EXCEPT ![t] = NoNode]
    /\ UNCHANGED <<parallel, heap, mtx, b, crashed>>


\* ----------------------------------------------------------------- equality
\* isEqual and the reference operators == and != are declared in the header
\* (lines 136, 227-228) and defined elsewhere; they follow the documented
\* contract: == delegates to isEqual, two empty references are equal, an
\* empty and a non-empty reference are not.
RECURSIVE isEqual(_, _)
isEqual(l, r) ==
    IF r = Null THEN FALSE
    ELSE IF l = r THEN TRUE
    ELSE /\ heap[l].scale = heap[r].scale
         /\ \A i \in 1..2 :
               LET lb == heap[l].branches[i]
                   rb == heap[r].branches[i]
               IN  IF lb = Null THEN rb = Null ELSE isEqual(lb, rb)

\* a slip: the empty left-hand side answered without looking at the right
RefEqNoNullCheck(lhs, rhs) == IF lhs = Null THEN TRUE ELSE isEqual(lhs, rhs)

RefEq(lhs, rhs) == IF lhs = Null THEN rhs = Null ELSE isEqual(lhs, rhs)

RefNe(lhs, rhs) == ~RefEq(lhs, rhs)

Verdict(v) == IF v THEN "true" ELSE "false"

Compare(op, lhs, rhs, v) ==
    /\ ~crashed
    /\ AllIdle
    /\ last' = Call(op, lhs, rhs, Verdict(v))
    /\ UNCHANGED <<parallel, heap, mtx, pc, this, b, pre, crashed>>

CompareEq == \E lhs \in Refs, rhs \in Refs : Compare("==", lhs, rhs, RefEq(lhs, rhs))

CompareNe == \E lhs \in Refs, rhs \in Refs : Compare("!=", lhs, rhs, RefNe(lhs, rhs))

\* ---------------------------------------------------------------- amplitude
\* The amplitude read along a path of bits from node n: the product of the
\* scales on the path; an empty slot is a zero-amplitude subtree.
Paths == UNION {[1..k -> Bits] : k \in 0..MaxDepth}

RECURSIVE AmpIn(_, _, _)
AmpIn(h, n, path) ==
    IF n = Null THEN ZERO_CMPLX
    ELSE IF path = <<>> THEN h[n].scale
    ELSE h[n].scale * AmpIn(h, h[n].branches[Head(path) + 1], Tail(path))

\* ------------------------------------------------------------ specifications
DefaultCall(t) ==
    \/ CallPushStateVector(t)
    \/ CallInsertAtDepth(t)
    \/ CallShallowClone(t)
    \/ CallPushSpecial(t)
    \/ CallPopStateVector(t)
    \/ CallBranch(t)
    \/ CallPrune(t)
    \/ CallNormalize(t)
    \/ CallApply2x2(t)

Caller == CHOOSE t \in Threads : \A u \in Threads : t <= u

\* The constructors and SetZero() under one caller, in either build.
Next ==
    \/ NewDefault(MaxNodes)
    \/ NewScale(MaxNodes)
    \/ NewScaleBranches(MaxNodes)
    \/ SetZeroCall(Caller)
    \/ \E i \in Bits : SeqDetach(Caller, i)
    \/ \E i \in Bits : Test(Caller, i)
    \/ \E i \in Bits : Copy(Caller, i)
    \/ \E i \in Bits : Lock(Caller, i)
    \/ \E i \in Bits : Clear(Caller, i)
    \/ \E i \in Bits : Unlock(Caller, i)
    \/ Return(Caller)

Spec == Init /\ [][Next]_vars

\* The constructors and the default operations under one caller.
OpsNext ==
    \/ NewDefault(MaxOpNodes)
    \/ NewScale(MaxOpNodes)
    \/ NewScaleBranches(MaxOpNodes)
    \/ DefaultCall(Caller)

OpsSpec == Init /\ [][OpsNext]_vars

\* The constructors and the reference comparisons.
EqNext ==
    \/ NewDefault(MaxNodes)
    \/ NewScale(MaxNodes)
    \/ NewScaleBranches(MaxNodes)
    \/ CompareEq
    \/ CompareNe

EqSpec == Init /\ [][EqNext]_vars

\* The parallel build: every thread may call SetZero() on any node.
ParInit == Init /\ parallel

ParNext ==
    \/ NewDefault(MaxNodes)
    \/ NewScale(MaxNodes)
    \/ NewScaleBranches(MaxNodes)
    \/ \E t \in Threads :
        \/ SetZeroCall(t)
        \/ \E i \in Bits : Test(t, i)
        \/ \E i \in Bits : Copy(t, i)
        \/ \E i \in Bits : Lock(t, i)
        \/ \E i \in Bits : LockNull(t, i)
        \/ \E i \in Bits : Clear(t, i)
        \/ \E i \in Bits : Unlock(t, i)
        \/ Return(t)

ParSpec == ParInit /\ [][ParNext]_vars

\* The parallel build, concurrent SetZero() calls on distinct nodes, fairly
\* scheduled.  The heap holds NumThreads childless nodes and, above them,
\* one parent per thread; parent t's two slots each refer to child t or to
\* the next child round the ring, so that neighbouring parents share
\* a child, in the same or in the opposite slot order.  Thread t calls
\* SetZero() on parent t, any number of times.
Leaves == 1..NumThreads

Parent(t) == NumThreads + t

Ring(t) == {t, (t % NumThreads) + 1}

FairHeaps ==
    {[n \in 1..(2 * NumThreads) |->
        IF n \in Leaves THEN CtorDefault
        ELSE CtorScaleBranches(ONE_CMPLX, br[n - NumThreads])] :
     br \in {f \in [Threads -> (0..NumThreads) \X (0..NumThreads)] :
                \A t \in Threads : f[t][1] \in Ring(t) /\ f[t][2] \in Ring(t)}}

FairInit ==
    /\ parallel = TRUE
    /\ heap \in FairHeaps
    /\ mtx = [n \in 1..(2 * NumThreads) |-> NoThread]
    /\ pc = [t \in Threads |-> Idle]
    /\ this = [t \in Threads |-> Null]
    /\ b = [t \in Threads |-> Null]
    /\ pre = [t \in Threads |-> NoNode]
    /\ last = NoCall
    /\ crashed = FALSE

DistinctCall(t) == SetZeroOn(t, Parent(t))

FairStep(t) ==
    \/ \E i \in Bits : Test(t, i)
    \/ \E i \in Bits : Copy(t, i)
    \/ \E i \in Bits : Lock(t, i)
    \/ \E i \in Bits : Clear(t, i)
    \/ \E i \in Bits : Unlock(t, i)
    \/ Return(t)

FairNext == \E t \in Threads : DistinctCall(t) \/ FairStep(t)

FairSpec ==
    /\ FairInit
    /\ [][FairNext]_vars
    /\ \A t \in Threads : WF_vars(FairStep(t))

Held(t) == {n \in Ids : mtx[n] = t}

\* ------------------------------------------------------------------- claims
Zeroed == [scale |-> ZERO_CMPLX, branches |-> <<Null, Null>>]

AtReturn(t) == pc[t] = <<"ret", 0>>

\* C1: when a SetZero() call returns, the node's scale is 0 and both of its
\* branch slots are empty, whatever they were before, in either build.
C1_SetZeroPost == \A t \in Threads : AtReturn(t) => heap[this[t]] = Zeroed

\* C1 witness: the locked build returns from SetZero() on a node that had a
\* non-zero scale and both slots referring to the same child.
C1_Witness ==
    \E t \in Threads :
        /\ AtReturn(t)
        /\ parallel
        /\ pre[t].scale # ZERO_CMPLX
        /\ pre[t].branches[1] # Null
        /\ pre[t].branches[1] = pre[t].branches[2]

\* C2: at every operation boundary (no call in progress), every node whose
\* scale is 0 has both branch slots empty, whatever constructors built it.
C2_ZeroClosure ==
    AllIdle => \A n \in Ids :
        heap[n].scale = ZERO_CMPLX => heap[n].branches = <<Null, Null>>

\* C3: PushStateVector, InsertAtDepth, ShallowClone and PushSpecial never
\* return normally: every call ends in the out_of_range error.
C3_AlwaysThrow ==
    last.op \in {"PushStateVector", "InsertAtDepth", "ShallowClone", "PushSpecial"}
        => last.outcome = "out_of_range"

\* C3 witness: PushStateVector was called with depth 0 and threw.
C3_Witness ==
    /\ last.op = "PushStateVector"
    /\ last.arg = 0
    /\ last.outcome = "out_of_range"

Gated == {"Prune", "Normalize", "Apply2x2"}

\* C4 as stated: Prune, Normalize and Apply2x2 fail with the out_of_range
\* error for every depth argument, depth 0 included.
C4_ThrowAtEveryDepth == last.op \in Gated => last.outcome = "out_of_range"

\* C4 amended: Prune, Normalize and Apply2x2 fail with the out_of_range error
\* for every depth greater than 0; with depth 0 they return normally and
\* leave every node as it was.
C4_ThrowAbove0 ==
    [][(last' # last /\ last'.op \in Gated) =>
         IF last'.arg = 0
         THEN last'.outcome = "returned" /\ heap' = heap
         ELSE last'.outcome = "out_of_range"]_vars

\* C4 witness: Apply2x2 was called with the largest depth and threw.
C4_Witness ==
    /\ last.op = "Apply2x2"
    /\ last.arg = MaxDepth
    /\ last.outcome = "out_of_range"

\* C5: Branch(0) and PopStateVector(0) return without error and leave the
\* node's scale and branch slots unchanged; with a depth greater than 0 they
\* fail with the out_of_range error.
C5_Depth0NoOp ==
    [][(last' # last /\ last'.op \in {"Branch", "PopStateVector"}) =>
         IF last'.arg = 0
         THEN last'.outcome = "returned" /\ heap' = heap
         ELSE last'.outcome = "out_of_range"]_vars

\* C5 witness: Branch(0) returned on a node that has a child and a non-zero
\* scale.
C5_Witness ==
    /\ last.op = "Branch"
    /\ last.arg = 0
    /\ last.outcome = "returned"
    /\ heap[last.self].scale # ZERO_CMPLX
    /\ heap[last.self].branches[1] # Null

\* C6: two empty references are equal under == and not unequal under !=; an
\* empty and a non-empty reference are unequal under both, in either order;
\* and != is always the negation of ==.
C6_NullHandling ==
    /\ last.op \in {"==", "!="} =>
         LET bothEmpty == last.self = Null /\ last.arg = Null
             oneEmpty == (last.self = Null) # (last.arg = Null)
             equal == IF last.op = "==" THEN "true" ELSE "false"
             unequal == IF last.op = "==" THEN "false" ELSE "true"
         IN  /\ bothEmpty => last.outcome = equal
             /\ oneEmpty => last.outcome = unequal
    /\ last.op = "!=" => last.outcome = Verdict(~RefEq(last.self, last.arg))

\* C6 witness: an empty reference was compared under == with a node that has
\* a non-zero scale and a child, and the verdict was false.
C6_Witness ==
    /\ last.op = "=="
    /\ last.self = Null
    /\ last.arg # Null
    /\ heap[last.arg].scale # ZERO_CMPLX
    /\ heap[last.arg].branches[2] # Null
    /\ last.outcome = "false"

\* C7: whenever SetZero() on node N is about to write one of N's branch
\* slots, the calling thread holds N's own mutex.
C7_HoldsOwnLock ==
    \A t \in Threads, i \in Bits : pc[t] = <<"clear", i>> => mtx[this[t]] = t

\* C8: concurrent SetZero() calls on one node are serialized: no call ever
\* takes a lock through an empty reference (and so the process never faults).
C8_NoNullLock ==
    /\ ~crashed
    /\ \A t \in Threads, i \in Bits : pc[t] = <<"lock", i>> => b[t] # Null

\* C9: SetZero() never holds more than one node lock at a time, and under
\* fair scheduling every concurrent SetZero() call on distinct nodes, nodes
\* sharing children in opposite slot order included, eventually completes.
C9_NoDeadlock ==
    /\ [](\A t \in Threads : Cardinality(Held(t)) <= 1)
    /\ \A t \in Threads : (pc[t] # Idle) ~> (pc[t] = Idle)

\* C9 witness: two parents that had the same two children in opposite slot
\* order are both inside SetZero(), and one waits for the child mutex the
\* other holds.
C9_Witness ==
    \E t \in Threads, u \in Threads :
        /\ t # u
        /\ pre[t].branches[1] # pre[t].branches[2]
        /\ pre[t].branches[1] = pre[u].branches[2]
        /\ pre[t].branches[2] = pre[u].branches[1]
        /\ pc[t] = <<"lock", 1>>
        /\ pc[u] = <<"clear", 0>>
        /\ mtx[b[t]] = u

\* the node a step of thread t's SetZero() runs on
Target(t) == IF pc[t] = Idle THEN this'[t] ELSE this[t]

\* C10: every step of SetZero() on node A leaves every other node's scale and
\* branch slots as they were; a parent B that shares a child S with A still
\* refers to S, and every amplitude read through B into S is unchanged.
C10_Frame ==
    [][\A t \in Threads : pc'[t] # pc[t] =>
         LET A == Target(t)
             kids == {heap[A].branches[1], heap[A].branches[2]} \ {Null}
         IN  /\ Len(heap') = Len(heap)
             /\ \A n \in Ids \ {A} : heap'[n] = heap[n]
             /\ \A B \in Ids \ {A}, i \in 1..2 :
                   LET S == heap[B].branches[i]
                   IN  S \in kids =>
                         /\ heap'[B].branches[i] = S
                         /\ \A path \in Paths :
                               heap'[B].scale * AmpIn(heap', S, path)
                                 = heap[B].scale * AmpIn(heap, S, path)]_vars

\* C10 witness: SetZero() is returning on a node one of whose children, of
\* non-zero scale, is still the child of another parent of non-zero scale.
C10_Witness ==
    \E t \in Threads : \E B \in Ids \ {this[t]}, i \in 1..2 :
        /\ AtReturn(t)
        /\ heap[B].branches[i] # Null
        /\ heap[B].branches[i] \in {pre[t].branches[1], pre[t].branches[2]}
        /\ heap[B].scale # ZERO_CMPLX
        /\ heap[heap[B].branches[i]].scale # ZERO_CMPLX
====
